---- MODULE Spec2Model ----
(***************************************************************************)
(* State-machine model of the E-Commerce REST backend: the Express route   *)
(* handlers of Routes/auth.js, Routes/cart.js, Routes/products.js,         *)
(* Routes/categories.js, Routes/orders.js, Routes/protected.js and the     *)
(* authenticateJWT middleware, over the PostgreSQL tables created by       *)
(* createTables.                                                           *)
(*                                                                         *)
(* Money is counted in thousandths of a currency unit, so that a request   *)
(* can carry an amount finer than the cents a DECIMAL(10,2) column keeps.  *)
(* Catalog prices are whole currency units, for which parseFloat, * and +  *)
(* are exact.                                                              *)
(***************************************************************************)
EXTENDS Integers, Sequences, FiniteSets, TLC

VARIABLES users, userSeq, categories, products, carts, orders,
          productSeq, categorySeq, clock, inflight, nreq, last

db == <<users, userSeq, categories, products, carts, orders,
        productSeq, categorySeq, clock>>
vars == <<users, userSeq, categories, products, carts, orders,
          productSeq, categorySeq, clock, inflight, nreq, last>>

(***************************************************************************)
(* Bounds of the model.                                                    *)
(***************************************************************************)
MaxRequests == 5     \* requests of one run that write to the database
MaxInflight == 2     \* GET /cart requests in flight at once

(***************************************************************************)
(* JSON / JavaScript values of a request body: a number, a string of       *)
(* decimal digits (kept as the sequence of its digits), or something that  *)
(* is not an integer at all ("abc", null, missing).                        *)
(***************************************************************************)
Num(n) == [t |-> "num", n |-> n, s |-> <<>>]
Str(digits) == [t |-> "str", n |-> 0, s |-> digits]
Bad == [t |-> "bad", n |-> 0, s |-> <<>>]

RECURSIVE ParseInt(_)
\* parseInt(s, 10), and the integer PostgreSQL reads from a text parameter
ParseInt(digits) ==
  IF digits = <<>> THEN 0
  ELSE 10 * ParseInt(SubSeq(digits, 1, Len(digits) - 1)) + digits[Len(digits)]

RECURSIVE Digits(_)
\* String(n) for n >= 0
Digits(n) == IF n < 10 THEN <<n>> ELSE Append(Digits(n \div 10), n % 10)

\* JavaScript ToNumber on a number or a decimal string
ToNumber(v) == IF v.t = "num" THEN v.n ELSE ParseInt(v.s)

\* JavaScript ToString on a number or a string
ToStr(v) == IF v.t = "str" THEN v.s ELSE Digits(v.n)

\* JavaScript a + b: numeric addition of two numbers, else concatenation
JsAdd(a, b) ==
  IF a.t = "num" /\ b.t = "num" THEN Num(a.n + b.n) ELSE Str(ToStr(a) \o ToStr(b))

\* JavaScript a === b (no coercion: 1 and "1" differ)
StrictEq(a, b) == a.t = b.t /\ a.n = b.n /\ a.s = b.s

\* express-validator isInt(): the value, stringified, is a decimal integer
isInt(v) == v.t # "bad"

\* express-validator isInt({ min: m })
isIntMin(v, m) == v.t # "bad" /\ ToNumber(v) >= m

(***************************************************************************)
(* Money.                                                                  *)
(***************************************************************************)
\* n whole currency units
Whole(n) == n * 1000

\* the value a DECIMAL(10,2) column keeps of an amount: rounded to the cent,
\* halves away from zero
ToDecimal2(amount) ==
  IF amount >= 0 THEN ((amount + 5) \div 10) * 10
  ELSE 0 - (((0 - amount) + 5) \div 10) * 10

(***************************************************************************)
(* Sequence helpers.                                                       *)
(***************************************************************************)
RECURSIVE SelectWhere(_, _)
\* rows of table whose index satisfies keep (a function index -> BOOLEAN), in order
SelectWhere(table, keep) ==
  IF table = <<>> THEN <<>>
  ELSE LET n == Len(table)
           front == SelectWhere(SubSeq(table, 1, n - 1), keep)
       IN IF keep[n] THEN Append(front, table[n]) ELSE front

(***************************************************************************)
(* authMiddleware.js                                                       *)
(***************************************************************************)
HeaderKinds == {"absent", "noToken", "malformed", "expired", "badsig", "valid"}

\* Authorization headers a client can send: the invalid ones, and a token
\* signed by login for an existing user (payload: userId, role).
Headers ==
  {[kind |-> k, userId |-> 0, role |-> "none"] : k \in HeaderKinds \ {"valid"}}
    \cup {[kind |-> "valid", userId |-> users[i].id, role |-> users[i].role] :
            i \in DOMAIN users}

\* mutant: a failed verification is passed on to the handler
authenticateJWTLax(h) ==
  IF h.kind = "absent" THEN 401 ELSE 0

\* 0: next() with req.user set; otherwise the status sent
authenticateJWT(h) ==
  IF h.kind = "absent" THEN 401
  ELSE IF h.kind = "valid" THEN 0
  ELSE 403

\* 0: next(); otherwise the status sent
authorizeAdmin(h) == IF h.role # "admin" THEN 403 ELSE 0

\* a request that writes to the database uses up one of the run's writes
Writes == nreq < MaxRequests /\ nreq' = nreq + 1

(***************************************************************************)
(* The response of the last request handled.                               *)
(***************************************************************************)
NoArg == Bad

\* the credentials of a request that carries none
NoCred == [email |-> "", password |-> "", role |-> ""]

\* what the client sent (pid, qty, total, bodyOk, cred, sent) and what it was
\* answered (status, total, rowId, rows); pid and qty are recorded for the
\* requests that get as far as using them
ReplyFull(op, h, status, pid, qty, total, rowId, bodyOk, cred, sent, rows) ==
  last' = [op |-> op, hdr |-> h.kind, userId |-> h.userId, role |-> h.role,
           status |-> status, pid |-> pid, qty |-> qty, total |-> total,
           rowId |-> rowId, bodyOk |-> bodyOk,
           cred |-> cred, sent |-> sent, rows |-> rows]

\* a reply to a request without credentials or a list in its body, and
\* without rows in its answer
Reply(op, h, status, pid, qty, total, rowId, bodyOk) ==
  ReplyFull(op, h, status, pid, qty, total, rowId, bodyOk, NoCred, <<>>, <<>>)

\* a request on a catalog row addressed by id, answered with a bare status
ReplyId(op, h, status, id, bodyOk) ==
  Reply(op, h, status, Num(id), NoArg, 0, 0, bodyOk)

(***************************************************************************)
(* Routes/auth.js                                                          *)
(***************************************************************************)
\* a request that carries no Authorization header to a public endpoint
Public == [kind |-> "public", userId |-> 0, role |-> "none"]

\* the addresses isEmail() accepts, of those clients send
WellFormedEmails == {"admin@shop", "customer@shop", "new@shop"}

isEmail(email) == email \in WellFormedEmails

\* bcrypt.hash(password, 10): a digest under a fresh salt, never the password
Hash(password, salt) == [alg |-> "bcrypt", salt |-> salt, of |-> password]

\* bcrypt.compare(password, hash)
Compare(password, hash) == hash.of = password

\* mutant: every token carries the role customer
generateTokenAsCustomer(user) ==
  [kind |-> "valid", userId |-> user.id, role |-> "customer"]

\* jwt.sign({ userId: user.id, role: user.role }, JWT_SECRET, { expiresIn: "1h" })
generateToken(user) == [kind |-> "valid", userId |-> user.id, role |-> user.role]

\* SELECT * FROM users WHERE email = $1
SelectUser(email) ==
  SelectWhere(users, [i \in DOMAIN users |-> users[i].email = email])

\* the validators of POST /auth/signup
ValidSignupBody(cred) ==
  /\ isEmail(cred.email)
  /\ Len(cred.password) >= 6
  /\ cred.role \in {"admin", "customer"}

\* INSERT INTO users ... RETURNING id, email, role, and the response; email is
\* UNIQUE, and nextval is consumed whether or not the INSERT succeeds
InsertUser(cred, hashedPassword) ==
  LET row == [id |-> userSeq + 1, email |-> cred.email,
              password |-> hashedPassword, role |-> cred.role]
  IN /\ userSeq' = userSeq + 1
     /\ IF SelectUser(cred.email) # <<>>
        THEN /\ users' = users
             /\ ReplyFull("signup", Public, 500, NoArg, NoArg, 0, 0, TRUE,
                          cred, <<>>, <<>>)
        ELSE /\ users' = Append(users, row)
             /\ ReplyFull("signup", Public, 201, NoArg, NoArg, 0, row.id, TRUE,
                          cred, <<>>,
                          <<[id |-> row.id, email |-> row.email, role |-> row.role]>>)
     /\ Writes

\* POST /auth/signup, the handler run without interruption
Signup(cred, salt) ==
  IF ~ValidSignupBody(cred)
  THEN /\ ReplyFull("signup", Public, 400, NoArg, NoArg, 0, 0, FALSE,
                    cred, <<>>, <<>>)
       /\ UNCHANGED <<db, inflight, nreq>>
  ELSE /\ InsertUser(cred, Hash(cred.password, salt))
       /\ UNCHANGED <<categories, products, carts, orders,
                      productSeq, categorySeq, clock, inflight>>

\* POST /auth/signup as concurrent requests run it: the validators and the
\* hashing of the password
SignupBegin(cred, salt) ==
  IF ~ValidSignupBody(cred)
  THEN /\ ReplyFull("signup", Public, 400, NoArg, NoArg, 0, 0, FALSE,
                    cred, <<>>, <<>>)
       /\ UNCHANGED <<db, inflight, nreq>>
  ELSE /\ Len(inflight) < MaxInflight
       /\ inflight' = Append(inflight, [pc |-> "insertUser", cred |-> cred,
                                        hash |-> Hash(cred.password, salt)])
       /\ UNCHANGED <<db, nreq, last>>

\* the INSERT of the k-th request in flight, and its response
SignupInsert(k) ==
  /\ inflight[k].pc = "insertUser"
  /\ InsertUser(inflight[k].cred, inflight[k].hash)
  /\ inflight' = SelectWhere(inflight, [j \in DOMAIN inflight |-> j # k])
  /\ UNCHANGED <<categories, products, carts, orders,
                 productSeq, categorySeq, clock>>

\* the validators of POST /auth/login
ValidLoginBody(cred) == isEmail(cred.email) /\ cred.password # ""

\* POST /auth/login ; cred.role is not part of the body
Login(cred) ==
  LET found == SelectUser(cred.email)
      status == IF ~ValidLoginBody(cred) THEN 400
                ELSE IF found = <<>> THEN 401
                ELSE IF ~Compare(cred.password, found[1].password) THEN 401
                ELSE 200
  IN /\ ReplyFull("login", Public, status, NoArg, NoArg, 0, 0,
                  ValidLoginBody(cred), cred, <<>>,
                  IF status = 200 THEN <<generateToken(found[1])>> ELSE <<>>)
     /\ UNCHANGED <<db, inflight, nreq>>

(***************************************************************************)
(* Routes/cart.js                                                          *)
(***************************************************************************)
\* SELECT price FROM products WHERE id = $1 : the matching rows
SelectProduct(id) ==
  SelectWhere(products, [i \in DOMAIN products |-> products[i].id = id])

\* SELECT * FROM carts WHERE user_id = $1 : the indexes of the matching rows
CartRowsOf(userId) == {i \in DOMAIN carts : carts[i].user_id = userId}

\* UPDATE carts SET items = $1 WHERE user_id = $2
UpdateCartItems(userId, cartItems) ==
  [i \in DOMAIN carts |->
     IF carts[i].user_id = userId THEN [carts[i] EXCEPT !.items = cartItems]
     ELSE carts[i]]

\* mutant: the unit price is captured, not unit price x quantity
ItemPriceUnit(price, quantity) == price

\* itemPrice = parseFloat(product.rows[0].price) * quantity
ItemPrice(price, quantity) == price * ToNumber(quantity)

\* cartItems.findIndex(item => item.productId === productId); 0 for -1
FindIndex(cartItems, productId) ==
  LET hits == {i \in DOMAIN cartItems : StrictEq(cartItems[i].productId, productId)}
  IN IF hits = {} THEN 0 ELSE CHOOSE i \in hits : \A j \in hits : i <= j

\* increment the quantity of the existing line, or push a new line
AddOrUpdate(cartItems, productId, quantity, itemPrice) ==
  LET i == FindIndex(cartItems, productId)
  IN IF i > 0
     THEN [cartItems EXCEPT ![i].quantity = JsAdd(@, quantity)]
     ELSE Append(cartItems,
                 [productId |-> productId, quantity |-> quantity, price |-> itemPrice])

RECURSIVE SumPrices(_)
SumPrices(cartItems) ==
  IF cartItems = <<>> THEN 0
  ELSE SumPrices(SubSeq(cartItems, 1, Len(cartItems) - 1))
         + cartItems[Len(cartItems)].price

\* mutant: the last line is left out of the sum
TotalPriceShort(cartItems) ==
  IF cartItems = <<>> THEN 0 ELSE SumPrices(SubSeq(cartItems, 1, Len(cartItems) - 1))

\* cartItems.reduce((sum, item) => sum + item.price, 0)
TotalPrice(cartItems) == SumPrices(cartItems)

\* cartItems.filter(item => item.productId !== productId)
FilterOut(cartItems, productId) ==
  SelectWhere(cartItems,
    [i \in DOMAIN cartItems |-> ~StrictEq(cartItems[i].productId, productId)])

\* GET /cart, the handler run without interruption
GetCart(h) ==
  LET auth == authenticateJWT(h)
      mine == CartRowsOf(h.userId)
  IN IF auth # 0
     THEN /\ Reply("getCart", h, auth, NoArg, NoArg, 0, 0, TRUE)
          /\ UNCHANGED <<db, inflight, nreq>>
     ELSE IF mine = {}
     THEN LET row == [id |-> Len(carts) + 1, user_id |-> h.userId, items |-> <<>>]
          IN /\ carts' = Append(carts, row)
             /\ Reply("getCart", h, 200, NoArg, NoArg, 0, row.id, TRUE)
             /\ UNCHANGED <<users, userSeq, categories, products, orders,
                            productSeq, categorySeq, clock, inflight>>
             /\ Writes
     ELSE \E i \in mine :
            /\ Reply("getCart", h, 200, NoArg, NoArg, 0, carts[i].id, TRUE)
            /\ UNCHANGED <<db, inflight, nreq>>

\* GET /cart as concurrent requests run it: the first SELECT. A request that
\* finds a row answers; one that finds none goes on to INSERT.
GetCartBegin(h) ==
  LET auth == authenticateJWT(h)
      mine == CartRowsOf(h.userId)
  IN IF auth # 0
     THEN /\ Reply("getCart", h, auth, NoArg, NoArg, 0, 0, TRUE)
          /\ UNCHANGED <<db, inflight, nreq>>
     ELSE IF mine = {}
     THEN /\ Len(inflight) < MaxInflight
          /\ inflight' = Append(inflight, [h |-> h, pc |-> "insert"])
          /\ UNCHANGED <<db, nreq, last>>
     ELSE \E i \in mine :
            /\ Reply("getCart", h, 200, NoArg, NoArg, 0, carts[i].id, TRUE)
            /\ UNCHANGED <<db, inflight, nreq>>

\* INSERT INTO carts (user_id) VALUES ($1), by the k-th request in flight
GetCartInsert(k) ==
  /\ inflight[k].pc = "insert"
  /\ carts' = Append(carts, [id |-> Len(carts) + 1,
                             user_id |-> inflight[k].h.userId, items |-> <<>>])
  /\ inflight' = [inflight EXCEPT ![k].pc = "reselect"]
  /\ Writes
  /\ UNCHANGED <<users, userSeq, categories, products, orders,
                 productSeq, categorySeq, clock, last>>

\* the second SELECT and res.json(newCart.rows[0]); without ORDER BY any of
\* the user's rows may come first
GetCartReselect(k) ==
  /\ inflight[k].pc = "reselect"
  /\ \E i \in CartRowsOf(inflight[k].h.userId) :
       Reply("getCart", inflight[k].h, 200, NoArg, NoArg, 0, carts[i].id, TRUE)
  /\ inflight' = SelectWhere(inflight, [j \in DOMAIN inflight |-> j # k])
  /\ UNCHANGED <<db, nreq>>

\* mutant: the cart is read before the product is looked up
AddItemStatusCartFirst(h, productId, quantity) ==
  LET auth == authenticateJWT(h)
  IN IF auth # 0 THEN auth
     ELSE IF ~(isInt(productId) /\ isIntMin(quantity, 1)) THEN 400
     ELSE IF CartRowsOf(h.userId) = {} THEN 500
     ELSE IF SelectProduct(ToNumber(productId)) = <<>> THEN 404
     ELSE 200

\* mutant: the handler runs without consulting the validators
AddItemStatusUnvalidated(h, productId, quantity) ==
  LET auth == authenticateJWT(h)
  IN IF auth # 0 THEN auth
     ELSE IF SelectProduct(ToNumber(productId)) = <<>> THEN 404
     ELSE IF CartRowsOf(h.userId) = {} THEN 500
     ELSE 200

\* the status POST /cart answers: the middleware, the validators, the product
\* lookup, then the read of the cart (rows[0] of no rows: TypeError, caught, 500)
AddItemStatus(h, productId, quantity) ==
  LET auth == authenticateJWT(h)
  IN IF auth # 0 THEN auth
     ELSE IF ~(isInt(productId) /\ isIntMin(quantity, 1)) THEN 400
     ELSE IF SelectProduct(ToNumber(productId)) = <<>> THEN 404
     ELSE IF CartRowsOf(h.userId) = {} THEN 500
     ELSE 200

\* POST /cart
AddItem(h, productId, quantity) ==
  LET status == AddItemStatus(h, productId, quantity)
      bodyOk == isInt(productId) /\ isIntMin(quantity, 1)
  IN IF status # 200
     THEN /\ Reply("addItem", h, status,
                   IF status \in {404, 500} THEN productId ELSE NoArg,
                   NoArg, 0, 0, bodyOk)
          /\ UNCHANGED <<db, inflight, nreq>>
     ELSE \E i \in CartRowsOf(h.userId) :
            LET product == SelectProduct(ToNumber(productId))
                itemPrice == ItemPrice(product[1].price, quantity)
                cartItems == AddOrUpdate(carts[i].items, productId,
                                         quantity, itemPrice)
                totalPrice == TotalPrice(cartItems)
            IN /\ carts' = UpdateCartItems(h.userId, cartItems)
               /\ Reply("addItem", h, 200, productId, quantity,
                        totalPrice, carts[i].id, bodyOk)
               /\ UNCHANGED <<users, userSeq, categories, products, orders,
                              productSeq, categorySeq, clock, inflight>>
               /\ Writes

\* POST /cart as concurrent requests run it, one await at a time: the
\* middleware, the validators and the SELECT of the product's price
AddItemBegin(h, productId, quantity) ==
  LET auth == authenticateJWT(h)
      bodyOk == isInt(productId) /\ isIntMin(quantity, 1)
      product == SelectProduct(ToNumber(productId))
  IN IF auth # 0
     THEN /\ Reply("addItem", h, auth, NoArg, NoArg, 0, 0, bodyOk)
          /\ UNCHANGED <<db, inflight, nreq>>
     ELSE IF ~bodyOk
     THEN /\ Reply("addItem", h, 400, NoArg, NoArg, 0, 0, bodyOk)
          /\ UNCHANGED <<db, inflight, nreq>>
     ELSE IF product = <<>>
     THEN /\ Reply("addItem", h, 404, productId, NoArg, 0, 0, bodyOk)
          /\ UNCHANGED <<db, inflight, nreq>>
     ELSE /\ Len(inflight) < MaxInflight
          /\ inflight' = Append(inflight,
               [pc |-> "selectCart", h |-> h, productId |-> productId,
                quantity |-> quantity,
                itemPrice |-> ItemPrice(product[1].price, quantity),
                read |-> <<>>, cartItems |-> <<>>, cartId |-> 0])
          /\ UNCHANGED <<db, nreq, last>>

\* the SELECT of the cart by the k-th request in flight, and the line added
\* to or updated in the array it returned; read keeps what the query returned
AddItemSelectCart(k) ==
  LET r == inflight[k]
      mine == CartRowsOf(r.h.userId)
  IN /\ r.pc = "selectCart"
     /\ IF mine = {}
        THEN /\ Reply("addItem", r.h, 500, r.productId, NoArg, 0, 0, TRUE)
             /\ inflight' = SelectWhere(inflight, [j \in DOMAIN inflight |-> j # k])
        ELSE \E i \in mine :
               /\ inflight' = [inflight EXCEPT ![k] =
                    [r EXCEPT !.pc = "update", !.read = carts[i].items,
                              !.cartId = carts[i].id,
                              !.cartItems = AddOrUpdate(carts[i].items, r.productId,
                                                        r.quantity, r.itemPrice)]]
               /\ last' = last
     /\ UNCHANGED <<db, nreq>>

\* mutant: the UPDATE merges the line into the items the row holds now
AddItemUpdateMerging(k) ==
  LET r == inflight[k]
  IN /\ r.pc = "update"
     /\ \E i \in CartRowsOf(r.h.userId) :
          carts' = UpdateCartItems(r.h.userId,
                     AddOrUpdate(carts[i].items, r.productId, r.quantity, r.itemPrice))
     /\ inflight' = [inflight EXCEPT ![k].pc = "respond"]
     /\ Writes
     /\ UNCHANGED <<users, userSeq, categories, products, orders,
                    productSeq, categorySeq, clock, last>>

\* UPDATE carts SET items = $1 WHERE user_id = $2, by the k-th request
AddItemUpdate(k) ==
  LET r == inflight[k]
  IN /\ r.pc = "update"
     /\ carts' = UpdateCartItems(r.h.userId, r.cartItems)
     /\ inflight' = [inflight EXCEPT ![k].pc = "respond"]
     /\ Writes
     /\ UNCHANGED <<users, userSeq, categories, products, orders,
                    productSeq, categorySeq, clock, last>>

\* res.json({ message, totalPrice }) of the k-th request; rows carries the
\* items the request stored
AddItemRespond(k) ==
  LET r == inflight[k]
  IN /\ r.pc = "respond"
     /\ ReplyFull("addItem", r.h, 200, r.productId, r.quantity,
                  TotalPrice(r.cartItems), r.cartId, TRUE, NoCred, <<>>, r.cartItems)
     /\ inflight' = SelectWhere(inflight, [j \in DOMAIN inflight |-> j # k])
     /\ UNCHANGED <<db, nreq>>

\* DELETE /cart/:productId ; param is the path segment, a string
RemoveItem(h, param) ==
  LET auth == authenticateJWT(h)
      bodyOk == isInt(param)
      mine == CartRowsOf(h.userId)
  IN IF auth # 0
     THEN /\ Reply("removeItem", h, auth, NoArg, NoArg, 0, 0, bodyOk)
          /\ UNCHANGED <<db, inflight, nreq>>
     ELSE IF ~bodyOk
     THEN /\ Reply("removeItem", h, 400, NoArg, NoArg, 0, 0, bodyOk)
          /\ UNCHANGED <<db, inflight, nreq>>
     ELSE IF mine = {}
     \* cartResult.rows[0] is undefined: TypeError, caught, 500
     THEN /\ Reply("removeItem", h, 500, param, NoArg, 0, 0, bodyOk)
          /\ UNCHANGED <<db, inflight, nreq>>
     ELSE \E i \in mine :
            LET productId == Num(ParseInt(param.s))
                cartItems == FilterOut(carts[i].items, productId)
                totalPrice == TotalPrice(cartItems)
            IN /\ carts' = UpdateCartItems(h.userId, cartItems)
               /\ Reply("removeItem", h, 200, param, NoArg, totalPrice,
                        carts[i].id, bodyOk)
               /\ UNCHANGED <<users, userSeq, categories, products, orders,
                              productSeq, categorySeq, clock, inflight>>
               /\ Writes

(***************************************************************************)
(* Routes/products.js : the public reads                                   *)
(***************************************************************************)
\* null, and a field that is not in the body or the URL
Null == "<null>"
Absent == "<absent>"

\* a query parameter that is not in the URL
Undef == [t |-> "undef", n |-> 0, s |-> <<>>]

\* the characters of the strings the model uses (a TLA+ string is atomic)
Spell(str) ==
  CASE str = "Widget" -> <<"W", "i", "d", "g", "e", "t">>
    [] str = "Mug" -> <<"M", "u", "g">>
    [] str = "WID" -> <<"W", "I", "D">>
    [] str = "g" -> <<"g">>
    [] str = "_" -> <<"_">>
    [] str = "" -> <<>>

\* case folding, as ILIKE compares
Lower(c) ==
  CASE c = "W" -> "w" [] c = "I" -> "i" [] c = "D" -> "d" [] c = "M" -> "m"
    [] OTHER -> c

RECURSIVE ILike(_, _)
\* text ILIKE pattern : % matches any run of characters, _ any one character
ILike(text, pattern) ==
  IF pattern = <<>> THEN text = <<>>
  ELSE IF Head(pattern) = "%"
  THEN ILike(text, Tail(pattern)) \/ (text # <<>> /\ ILike(Tail(text), pattern))
  ELSE /\ text # <<>>
       /\ Head(pattern) = "_" \/ Lower(Head(pattern)) = Lower(Head(text))
       /\ ILike(Tail(text), Tail(pattern))

\* the validators of GET /products/list ; every parameter is optional()
ValidListQuery(q) ==
  /\ q.page = Undef \/ isIntMin(q.page, 1)
  /\ q.limit = Undef \/ isIntMin(q.limit, 1)
  /\ q.minPrice = Undef \/ isIntMin(q.minPrice, 0)
  /\ q.maxPrice = Undef \/ isIntMin(q.maxPrice, 0)
  /\ q.category = Undef \/ isInt(q.category)

\* whereClause with its values: WHERE 1=1 and one AND per parameter that is
\* truthy (a parameter in the URL is a string; only "" is falsy)
WhereClause(q, row) ==
  /\ q.minPrice # Undef => row.price >= Whole(ToNumber(q.minPrice))
  /\ q.maxPrice # Undef => row.price <= Whole(ToNumber(q.maxPrice))
  /\ q.category # Undef => row.category_id = ToNumber(q.category)
  /\ q.search \notin {Absent, ""}
       => ILike(Spell(row.name), <<"%">> \o Spell(q.search) \o <<"%">>)

\* SELECT ... FROM products WHERE ... : the matching rows, in table order
SelectProducts(q) ==
  SelectWhere(products, [i \in DOMAIN products |-> WhereClause(q, products[i])])

\* mutant: offset = page * limit
OffsetNextPage(page, limit) == ToNumber(page) * ToNumber(limit)

\* offset = (page - 1) * limit
Offset(page, limit) == (ToNumber(page) - 1) * ToNumber(limit)

\* mutant: Math.floor(totalCount / limit)
TotalPagesFloor(totalCount, limit) == totalCount \div ToNumber(limit)

\* Math.ceil(totalCount / limit)
TotalPages(totalCount, limit) ==
  IF totalCount % ToNumber(limit) = 0 THEN totalCount \div ToNumber(limit)
  ELSE totalCount \div ToNumber(limit) + 1

\* rows LIMIT limit OFFSET offset
LimitOffset(rows, limit, offset) ==
  IF offset >= Len(rows) THEN <<>>
  ELSE SubSeq(rows, offset + 1,
              IF offset + limit < Len(rows) THEN offset + limit ELSE Len(rows))

\* the orders in which a SELECT without ORDER BY hands over its rows: the
\* order is not fixed; the table read forwards and backwards stand for the scans
ScanOrders(rows) == {rows, [i \in DOMAIN rows |-> rows[Len(rows) + 1 - i]]}

\* GET /products/list ; the two queries run with no write in between
ListProducts(q) ==
  IF ~ValidListQuery(q)
  THEN /\ ReplyFull("listProducts", Public, 400, NoArg, NoArg, 0, 0, FALSE,
                    NoCred, <<q>>, <<>>)
       /\ UNCHANGED <<db, inflight, nreq>>
  ELSE LET page == IF q.page = Undef THEN Num(1) ELSE q.page
           limit == IF q.limit = Undef THEN Num(10) ELSE q.limit
           matching == SelectProducts(q)
           totalCount == Len(matching)
       IN \E scan \in ScanOrders(matching) :
            LET body == [products |-> LimitOffset(scan, ToNumber(limit),
                                                  Offset(page, limit)),
                         totalCount |-> totalCount,
                         currentPage |-> ToNumber(page),
                         totalPages |-> TotalPages(totalCount, limit)]
            IN /\ ReplyFull("listProducts", Public, 200, NoArg, NoArg, 0, 0, TRUE,
                            NoCred, <<q>>, <<body>>)
               /\ UNCHANGED <<db, inflight, nreq>>

\* GET /products/:id
GetProduct(id) ==
  LET product == SelectProduct(id)
  IN /\ IF product = <<>>
        THEN ReplyFull("getProduct", Public, 404, Num(id), NoArg, 0, 0, TRUE,
                       NoCred, <<>>, <<>>)
        ELSE ReplyFull("getProduct", Public, 200, Num(id), NoArg, 0, id, TRUE,
                       NoCred, <<>>, <<product[1]>>)
     /\ UNCHANGED <<db, inflight, nreq>>

(***************************************************************************)
(* Routes/products.js : the admin-only writes                              *)
(***************************************************************************)

\* the validators of POST /products and PUT /products/:id
ValidProductBody(b) ==
  /\ b.name # "" /\ b.name # Absent
  /\ b.description # "" /\ b.description # Absent
  /\ b.price >= 0
  /\ b.stock >= 0

CategoryExists(id) == \E i \in DOMAIN categories : categories[i].id = id

ProductRow(id, b, imageUrl) ==
  [id |-> id, name |-> b.name, description |-> b.description,
   price |-> ToDecimal2(b.price),
   stock |-> b.stock, category_id |-> b.category_id, image_url |-> imageUrl]

\* mutant: category_id is a plain column, without REFERENCES
ProductRowOkUnreferenced(row) == row.image_url # Null

\* the constraints of the products table: image_url NOT NULL, category_id REFERENCES
ProductRowOk(row) == row.image_url # Null /\ CategoryExists(row.category_id)

\* mutant: the body is validated before the role is checked
ProductGateValidateFirst(h, bodyOk) ==
  LET auth == authenticateJWT(h)
  IN IF auth # 0 THEN auth
     ELSE IF ~bodyOk THEN 400
     ELSE authorizeAdmin(h)

\* the middleware chain authenticateJWT, authorizeAdmin, validators:
\* 0 when the handler body runs, otherwise the status sent
ProductGate(h, bodyOk) ==
  LET auth == authenticateJWT(h)
  IN IF auth # 0 THEN auth
     ELSE IF authorizeAdmin(h) # 0 THEN authorizeAdmin(h)
     ELSE IF ~bodyOk THEN 400
     ELSE 0

\* POST /products ; b.image is "none" (no image), "ok" (upload succeeds) or
\* "fail" (upload rejects; the error is caught and logged)
CreateProduct(h, b) ==
  LET gate == ProductGate(h, ValidProductBody(b))
      imageUrl == IF b.image = "ok" THEN "url" ELSE Null
      row == ProductRow(productSeq + 1, b, imageUrl)
  IN IF gate # 0
     THEN /\ ReplyId("createProduct", h, gate, 0, ValidProductBody(b))
          /\ UNCHANGED <<db, inflight, nreq>>
     ELSE \* nextval is consumed whether or not the INSERT succeeds
          /\ productSeq' = productSeq + 1
          /\ IF ProductRowOk(row)
             THEN /\ products' = Append(products, row)
                  /\ Reply("createProduct", h, 201, Num(row.id), NoArg,
                           b.price, row.id, TRUE)
             ELSE /\ products' = products
                  /\ ReplyId("createProduct", h, 500, 0, TRUE)
          /\ UNCHANGED <<users, userSeq, categories, carts, orders, categorySeq, clock, inflight>>
          /\ Writes

RepricedLines(cartItems, id, price) ==
  [i \in DOMAIN cartItems |->
     IF ToNumber(cartItems[i].productId) = id
     THEN [cartItems[i] EXCEPT !.price = price * ToNumber(cartItems[i].quantity)]
     ELSE cartItems[i]]

\* PUT /products/:id
UpdateProductRows(id, b) ==
  [i \in DOMAIN products |->
     IF products[i].id = id THEN ProductRow(id, b, "url") ELSE products[i]]

\* mutant: the new price is pushed into the cart lines of the product
UpdateProductCascade(h, id, b) ==
  /\ ProductGate(h, ValidProductBody(b)) = 0
  /\ b.image = "ok"
  /\ SelectProduct(id) # <<>>
  /\ CategoryExists(b.category_id)
  /\ products' = UpdateProductRows(id, b)
  /\ carts' = [i \in DOMAIN carts |->
                 [carts[i] EXCEPT !.items = RepricedLines(@, id, b.price)]]
  /\ Reply("updateProduct", h, 200, Num(id), NoArg, b.price, id, TRUE)
  /\ UNCHANGED <<users, userSeq, categories, orders, productSeq, categorySeq, clock, inflight>>
  /\ Writes

UpdateProduct(h, id, b) ==
  LET gate == ProductGate(h, ValidProductBody(b))
      imageUrl == IF b.image = "ok" THEN "url" ELSE Null
      row == ProductRow(id, b, imageUrl)
      status == IF gate # 0 THEN gate
                ELSE IF b.image = "fail" THEN 500   \* the upload throws
                ELSE IF SelectProduct(id) = <<>> THEN 404
                ELSE IF ~ProductRowOk(row) THEN 500
                ELSE 200
  IN IF status = 200
     THEN /\ products' = UpdateProductRows(id, b)
          /\ Reply("updateProduct", h, 200, Num(id), NoArg, b.price, id, TRUE)
          /\ UNCHANGED <<users, userSeq, categories, carts, orders,
                         productSeq, categorySeq, clock, inflight>>
          /\ Writes
     ELSE /\ ReplyId("updateProduct", h, status, id, ValidProductBody(b))
          /\ UNCHANGED <<db, inflight, nreq>>

\* DELETE /products/:id
DeleteProduct(h, id) ==
  LET gate == ProductGate(h, TRUE)
  IN IF gate # 0
     THEN /\ ReplyId("deleteProduct", h, gate, id, TRUE)
          /\ UNCHANGED <<db, inflight, nreq>>
     ELSE IF SelectProduct(id) = <<>>
     THEN /\ ReplyId("deleteProduct", h, 404, id, TRUE)
          /\ UNCHANGED <<db, inflight, nreq>>
     ELSE /\ products' = SelectWhere(products,
                           [i \in DOMAIN products |-> products[i].id # id])
          /\ Reply("deleteProduct", h, 200, Num(id), NoArg, 0, id, TRUE)
          /\ UNCHANGED <<users, userSeq, categories, carts, orders,
                         productSeq, categorySeq, clock, inflight>>
          /\ Writes

(***************************************************************************)
(* Routes/categories.js : rows are (id, name); the free-text description   *)
(* takes part in no decision and is left out.                              *)
(***************************************************************************)
NameTaken(name, exceptId) ==
  \E i \in DOMAIN categories : categories[i].name = name /\ categories[i].id # exceptId

\* the middleware chain of the category writes: authenticateJWT, validators
\* (authorizeAdmin is defined in the file and never used)
CategoryGate(h, bodyOk) ==
  LET auth == authenticateJWT(h)
  IN IF auth # 0 THEN auth
     ELSE IF ~bodyOk THEN 400
     ELSE 0

\* POST /categories ; body('name').notEmpty()
CreateCategory(h, name) ==
  LET bodyOk == name # "" /\ name # Absent
      gate == CategoryGate(h, bodyOk)
  IN IF gate # 0
     THEN /\ ReplyId("createCategory", h, gate, 0, bodyOk)
          /\ UNCHANGED <<db, inflight, nreq>>
     ELSE \* nextval is consumed whether or not the INSERT succeeds
          /\ categorySeq' = categorySeq + 1
          /\ IF NameTaken(name, 0)   \* name UNIQUE
             THEN /\ categories' = categories
                  /\ ReplyId("createCategory", h, 500, 0, TRUE)
             ELSE /\ categories' = Append(categories,
                                     [id |-> categorySeq + 1, name |-> name])
                  /\ Reply("createCategory", h, 201, Num(categorySeq + 1), NoArg,
                           0, categorySeq + 1, TRUE)
          /\ UNCHANGED <<users, userSeq, products, carts, orders, productSeq, clock, inflight>>
          /\ Writes

\* PUT /categories/:id ; body('name').optional().isString()
UpdateCategory(h, id, name) ==
  LET gate == CategoryGate(h, TRUE)
      exists == CategoryExists(id)
      status == IF gate # 0 THEN gate
                \* no row matches: res.json(undefined), status 200
                ELSE IF ~exists THEN 200
                \* name NOT NULL, name UNIQUE
                ELSE IF name = Absent \/ NameTaken(name, id) THEN 500
                ELSE 200
  IN IF status = 200 /\ exists
     THEN /\ categories' = [i \in DOMAIN categories |->
                              IF categories[i].id = id
                              THEN [categories[i] EXCEPT !.name = name]
                              ELSE categories[i]]
          /\ Reply("updateCategory", h, 200, Num(id), NoArg, 0, id, TRUE)
          /\ UNCHANGED <<users, userSeq, products, carts, orders,
                         productSeq, categorySeq, clock, inflight>>
          /\ Writes
     ELSE /\ ReplyId("updateCategory", h, status, id, TRUE)
          /\ UNCHANGED <<db, inflight, nreq>>

\* DELETE /categories/:id
DeleteCategory(h, id) ==
  LET gate == CategoryGate(h, TRUE)
      referenced == \E i \in DOMAIN products : products[i].category_id = id
      status == IF gate # 0 THEN gate
                ELSE IF referenced THEN 500   \* products.category_id REFERENCES
                ELSE 200
  IN IF status = 200 /\ CategoryExists(id)
     THEN /\ categories' = SelectWhere(categories,
                             [i \in DOMAIN categories |-> categories[i].id # id])
          /\ Reply("deleteCategory", h, 200, Num(id), NoArg, 0, id, TRUE)
          /\ UNCHANGED <<users, userSeq, products, carts, orders,
                         productSeq, categorySeq, clock, inflight>>
          /\ Writes
     ELSE /\ ReplyId("deleteCategory", h, status, id, TRUE)
          /\ UNCHANGED <<db, inflight, nreq>>

\* PUT /categories/:id as the router receives it: param is the path segment,
\* checked by param('id').isInt() before the handler reads it
UpdateCategoryAt(h, param, name) ==
  IF authenticateJWT(h) = 0 /\ ~isInt(param)
  THEN /\ Reply("updateCategory", h, 400, NoArg, NoArg, 0, 0, FALSE)
       /\ UNCHANGED <<db, inflight, nreq>>
  ELSE UpdateCategory(h, ToNumber(param), name)

\* DELETE /categories/:id as the router receives it
DeleteCategoryAt(h, param) ==
  IF authenticateJWT(h) = 0 /\ ~isInt(param)
  THEN /\ Reply("deleteCategory", h, 400, NoArg, NoArg, 0, 0, FALSE)
       /\ UNCHANGED <<db, inflight, nreq>>
  ELSE DeleteCategory(h, ToNumber(param))

(***************************************************************************)
(* Routes/orders.js                                                        *)
(***************************************************************************)
\* the validators of POST /orders
ValidOrderBody(items, total_price) ==
  /\ Len(items) >= 1
  /\ \A i \in DOMAIN items : isInt(items[i].productId) /\ isIntMin(items[i].quantity, 1)
  /\ total_price >= 0

\* the row INSERT INTO orders ... RETURNING stores: items as JSONB (the same
\* JSON value back), total_price as DECIMAL(10,2), order_date as the
\* CURRENT_TIMESTAMP of the insert
OrderRow(userId, items, total_price) ==
  [id |-> Len(orders) + 1, user_id |-> userId, items |-> items,
   total_price |-> ToDecimal2(total_price), order_date |-> clock + 1]

\* mutant: a user has one order, which a new order replaces
PlaceOrderReplace(h, items, total_price) ==
  /\ authenticateJWT(h) = 0
  /\ ValidOrderBody(items, total_price)
  /\ orders' = Append(SelectWhere(orders,
                        [i \in DOMAIN orders |-> orders[i].user_id # h.userId]),
                      OrderRow(h.userId, items, total_price))
  /\ clock' = clock + 1
  /\ ReplyFull("placeOrder", h, 201, NoArg, NoArg, total_price,
               Len(orders) + 1, TRUE, NoCred, items,
               <<OrderRow(h.userId, items, total_price)>>)
  /\ UNCHANGED <<users, userSeq, categories, products, carts,
                 productSeq, categorySeq, inflight>>
  /\ Writes

\* mutant: placing the order checks the cart out: the caller's cart is emptied
\* and the stock of the ordered products is taken down
PlaceOrderCheckout(h, items, total_price) ==
  /\ authenticateJWT(h) = 0
  /\ ValidOrderBody(items, total_price)
  /\ orders' = Append(orders, OrderRow(h.userId, items, total_price))
  /\ clock' = clock + 1
  /\ carts' = [i \in DOMAIN carts |->
                 IF carts[i].user_id = h.userId
                 THEN [carts[i] EXCEPT !.items = <<>>] ELSE carts[i]]
  /\ products' = [i \in DOMAIN products |->
                    IF \E j \in DOMAIN items : ToNumber(items[j].productId) = products[i].id
                    THEN [products[i] EXCEPT !.stock = @ - 1] ELSE products[i]]
  /\ ReplyFull("placeOrder", h, 201, NoArg, NoArg, total_price,
               Len(orders) + 1, TRUE, NoCred, items,
               <<OrderRow(h.userId, items, total_price)>>)
  /\ UNCHANGED <<users, userSeq, categories, productSeq, categorySeq, inflight>>
  /\ Writes

\* POST /orders ; the clock has moved on since the last insert
PlaceOrder(h, items, total_price) ==
  LET auth == authenticateJWT(h)
      bodyOk == ValidOrderBody(items, total_price)
      row == OrderRow(h.userId, items, total_price)
  IN IF auth # 0
     THEN /\ Reply("placeOrder", h, auth, NoArg, NoArg, total_price, 0, bodyOk)
          /\ UNCHANGED <<db, inflight, nreq>>
     ELSE IF ~bodyOk
     THEN /\ Reply("placeOrder", h, 400, NoArg, NoArg, total_price, 0, bodyOk)
          /\ UNCHANGED <<db, inflight, nreq>>
     ELSE /\ orders' = Append(orders, row)
          /\ clock' = clock + 1
          /\ ReplyFull("placeOrder", h, 201, NoArg, NoArg, total_price, row.id,
                       bodyOk, NoCred, items, <<row>>)
          /\ UNCHANGED <<users, userSeq, categories, products, carts,
                         productSeq, categorySeq, inflight>>
          /\ Writes

\* mutant: the orders of every user
OrdersOfAnyone(userId) == orders

\* SELECT * FROM orders WHERE user_id = $1
OrdersOf(userId) ==
  SelectWhere(orders, [i \in DOMAIN orders |-> orders[i].user_id = userId])

\* ORDER BY order_date DESC : the orders a result set may come in (rows with
\* the same order_date in any order)
OrderByDateDesc(rows) ==
  {r \in {[i \in DOMAIN rows |-> rows[f[i]]] : f \in Permutations(DOMAIN rows)} :
     \A i \in DOMAIN r : i < Len(r) => r[i].order_date >= r[i + 1].order_date}

\* GET /orders
ListOrders(h) ==
  LET auth == authenticateJWT(h)
  IN /\ IF auth # 0
        THEN Reply("listOrders", h, auth, NoArg, NoArg, 0, 0, TRUE)
        ELSE \E rows \in OrderByDateDesc(OrdersOf(h.userId)) :
               ReplyFull("listOrders", h, 200, NoArg, NoArg, 0, Len(rows), TRUE,
                         NoCred, <<>>, rows)
     /\ UNCHANGED <<db, inflight, nreq>>

(***************************************************************************)
(* Routes/protected.js                                                     *)
(***************************************************************************)
\* GET /admin-panel and GET /customer-dashboard
Protected(h, op, role) ==
  LET auth == authenticateJWT(h)
  IN /\ Reply(op, h, IF auth # 0 THEN auth ELSE IF h.role # role THEN 403 ELSE 200,
              NoArg, NoArg, 0, 0, TRUE)
     /\ UNCHANGED <<db, inflight, nreq>>

(***************************************************************************)
(* The requests clients send.                                              *)
(***************************************************************************)
Prices == {Whole(10), Whole(15)}

\* the product ids clients address
ProductIds == {1, 2}

\* productId of a POST /cart body: a JSON number, a JSON string, or no integer
ReqProductIds == {Num(i) : i \in ProductIds} \cup {Str(<<1>>), Bad}

\* quantity of a POST /cart body
ReqQuantities == {Num(0), Num(1), Num(2), Str(<<1>>), Bad}

\* the :productId segment of DELETE /cart/:productId
PathIds == {Str(Digits(i)) : i \in ProductIds} \cup {Bad}

\* tokens signed by login
Tokens == {h \in Headers : h.kind = "valid"}
CustomerTokens == {h \in Tokens : h.role = "customer"}

\* well-formed product bodies whose image uploads
GoodProductBodies ==
  [name : {"Widget"}, description : {"A widget"}, price : Prices, stock : {5},
   category_id : {1}, image : {"ok"}]

\* what a client posts to /orders: the lines and the total of a cart it has
\* read, a total that is off, an empty list
OrderItems == {carts[i].items : i \in DOMAIN carts} \cup {<<>>}

OrderTotals(items) == {SumPrices(items), SumPrices(items) + Whole(10), -1}

(***************************************************************************)
(* Initial state: the tables as createTables leaves them, after an admin   *)
(* and a customer have signed up and the category "Electronics" has been   *)
(* created (a product needs a category to reference).                      *)
(***************************************************************************)
NoReply ==
  [op |-> "none", hdr |-> "absent", userId |-> 0, role |-> "none", status |-> 0,
   pid |-> NoArg, qty |-> NoArg, total |-> 0, rowId |-> 0, bodyOk |-> TRUE,
   cred |-> NoCred, sent |-> <<>>, rows |-> <<>>]

Init ==
  /\ users = <<[id |-> 1, email |-> "admin@shop",
                 password |-> Hash("admin-pw", 1), role |-> "admin"],
               [id |-> 2, email |-> "customer@shop",
                 password |-> Hash("secret1", 1), role |-> "customer"]>>
  /\ userSeq = 2
  /\ categories = <<[id |-> 1, name |-> "Electronics"]>> /\ categorySeq = 1
  /\ products = <<>> /\ productSeq = 0
  /\ carts = <<>> /\ orders = <<>> /\ clock = 0
  /\ inflight = <<>>
  /\ nreq = 0
  /\ last = NoReply

\* The cart of a customer and the catalog prices under it: every request
\* carries a token; the admin opens its cart and manages the catalog.
Next ==
  \/ \E h \in Tokens : GetCart(h)
  \/ \E h \in CustomerTokens, productId \in ReqProductIds, quantity \in ReqQuantities :
       AddItem(h, productId, quantity)
  \/ \E h \in CustomerTokens, param \in PathIds : RemoveItem(h, param)
  \/ \E h \in Tokens, b \in GoodProductBodies : CreateProduct(h, b)
  \/ \E h \in Tokens, id \in ProductIds, b \in GoodProductBodies :
       UpdateProduct(h, id, b)
  \/ \E h \in Tokens, id \in ProductIds : DeleteProduct(h, id)

Spec == Init /\ [][Next]_vars

\* Checkout: a customer fills a cart and places orders while the admin
\* changes the catalog.
NextOrders ==
  \/ \E h \in CustomerTokens : GetCart(h)
  \/ \E h \in CustomerTokens, id \in ProductIds, q \in {1, 2} :
       AddItem(h, Num(id), Num(q))
  \/ \E h \in Tokens, b \in GoodProductBodies : CreateProduct(h, b)
  \/ \E h \in Tokens, id \in ProductIds, b \in GoodProductBodies :
       UpdateProduct(h, id, b)
  \/ \E h \in Tokens, id \in ProductIds : DeleteProduct(h, id)
  \/ \E h \in CustomerTokens, items \in OrderItems :
       \E total_price \in OrderTotals(items) : PlaceOrder(h, items, total_price)

SpecOrders == Init /\ [][NextOrders]_vars

\* Access control: every endpoint behind authenticateJWT, called with every
\* kind of Authorization header.
BodiesTried ==
  [name : {"Widget", ""}, description : {"A widget"}, price : {Whole(10)}, stock : {5},
   category_id : {1}, image : {"ok"}]

\* the headers that carry no valid token, and a customer's token
Shoppers == {h \in Headers : h.role # "admin"}

NextAccess ==
  \/ \E h \in Shoppers : GetCart(h)
  \/ \E h \in Shoppers : AddItem(h, Num(1), Num(1))
  \/ \E h \in Shoppers : RemoveItem(h, Str(<<1>>))
  \/ \E h \in Shoppers, items \in OrderItems : PlaceOrder(h, items, SumPrices(items))
  \/ \E h \in Shoppers : ListOrders(h)
  \/ \E h \in Headers, b \in BodiesTried : CreateProduct(h, b)
  \/ \E h \in Headers, b \in BodiesTried : UpdateProduct(h, 1, b)
  \/ \E h \in Headers : DeleteProduct(h, 1)
  \/ \E h \in Headers, name \in {"Books", ""} : CreateCategory(h, name)
  \/ \E h \in Headers, name \in {"Books", Absent} : UpdateCategory(h, 1, name)
  \/ \E h \in Headers, id \in {1, 2} : DeleteCategory(h, id)
  \/ \E h \in Headers : Protected(h, "adminPanel", "admin")
  \/ \E h \in Headers : Protected(h, "customerDashboard", "customer")

SpecAccess == Init /\ [][NextAccess]_vars

\* Overlapping GET /cart requests, each running its queries one at a time.
NextConc ==
  \/ \E h \in Tokens : GetCartBegin(h)
  \/ \E k \in DOMAIN inflight : GetCartInsert(k)
  \/ \E k \in DOMAIN inflight : GetCartReselect(k)
  \/ \E h \in Tokens, b \in GoodProductBodies : CreateProduct(h, b)
  \/ \E h \in CustomerTokens, id \in ProductIds : AddItem(h, Num(id), Num(1))

SpecConc == Init /\ [][NextConc]_vars

\* The catalog as the public reads it: an admin fills it, anyone lists it.
AdminTokens == {h \in Tokens : h.role = "admin"}

CatalogBodies ==
  {[name |-> "Widget", description |-> "A widget", price |-> Whole(10),
    stock |-> 5, category_id |-> 1, image |-> "ok"],
   [name |-> "Mug", description |-> "A mug", price |-> Whole(15),
    stock |-> 5, category_id |-> 1, image |-> "ok"]}

\* page and limit as the URL carries them
Paging ==
  {<<Undef, Undef>>, <<Str(<<1>>), Str(<<1>>)>>, <<Str(<<2>>), Str(<<1>>)>>,
   <<Str(<<1>>), Str(<<2>>)>>, <<Str(<<3>>), Str(<<2>>)>>}

\* page and limit the validators turn down
BadPaging == {<<Str(<<0>>), Str(<<1>>)>>, <<Str(<<1>>), Bad>>}

\* minPrice, maxPrice, category, search as the URL carries them
Filters ==
  {<<Undef, Undef, Undef, Absent>>,
   <<Str(<<1, 5>>), Undef, Undef, Absent>>,
   <<Undef, Str(<<1, 0>>), Undef, "g">>,
   <<Str(<<1, 0>>), Str(<<1, 5>>), Str(<<1>>), Absent>>,
   <<Undef, Undef, Str(<<2>>), Absent>>,
   <<Str(<<1, 5>>), Undef, Undef, "WID">>,
   <<Undef, Undef, Undef, "WID">>,
   <<Undef, Undef, Undef, "_">>}

ListQuery(pl, f) ==
  [page |-> pl[1], limit |-> pl[2], minPrice |-> f[1], maxPrice |-> f[2],
   category |-> f[3], search |-> f[4]]

ListQueries ==
  {ListQuery(pl, f) : pl \in Paging, f \in Filters}
    \cup {ListQuery(pl, <<Undef, Undef, Undef, Absent>>) : pl \in BadPaging}

NextCatalog ==
  \/ \E h \in AdminTokens, b \in CatalogBodies : CreateProduct(h, b)
  \/ \E q \in ListQueries : ListProducts(q)
  \/ \E id \in ProductIds : GetProduct(id)

SpecCatalog == Init /\ [][NextCatalog]_vars

\* Order history: the admin and the customer place orders and read them back.
\* The client sends the lines of a cart, with the total of the cart or with an
\* amount a rounding in the client left a tenth of a cent below it.
HistoryItems ==
  {<<[productId |-> Num(1), quantity |-> Num(2), price |-> Whole(20)]>>, <<>>}

HistoryTotals == {Whole(20), Whole(20) - 1}

NextHistory ==
  \/ \E h \in Tokens, items \in HistoryItems, total_price \in HistoryTotals :
       PlaceOrder(h, items, total_price)
  \/ \E h \in Tokens : ListOrders(h)

SpecHistory == Init /\ [][NextHistory]_vars

\* The whole shop around placed orders: every kind of request, by a caller
\* who may send it.
ShopBody(name, price) ==
  [name |-> name, description |-> "A widget", price |-> price, stock |-> 5,
   category_id |-> 1, image |-> "ok"]

ShopCred == [email |-> "new@shop", password |-> "secret1", role |-> "customer"]

NextShop ==
  \/ \E h \in CustomerTokens : GetCart(h)
  \/ \E h \in CustomerTokens : AddItem(h, Num(1), Num(2))
  \/ \E h \in CustomerTokens : RemoveItem(h, Str(<<1>>))
  \/ \E h \in Tokens, items \in OrderItems :
       PlaceOrder(h, items, SumPrices(items))
  \/ \E h \in Tokens : ListOrders(h)
  \/ \E h \in AdminTokens : CreateProduct(h, ShopBody("Widget", Whole(10)))
  \/ \E h \in AdminTokens : UpdateProduct(h, 1, ShopBody("Widget", Whole(15)))
  \/ \E h \in AdminTokens : DeleteProduct(h, 1)
  \/ \E h \in AdminTokens : CreateCategory(h, "Books")
  \/ \E h \in AdminTokens : UpdateCategory(h, 2, "Toys")
  \/ \E h \in AdminTokens : DeleteCategory(h, 2)
  \/ Signup(ShopCred, 1)
  \/ Login(ShopCred)

SpecShop == Init /\ [][NextShop]_vars

\* Accounts: signups that overlap, and logins.
Salts == {1, 2}

SignupBodies ==
  [email : {"customer@shop", "new@shop", "nobody"},
   password : {"secret1", "abc"}, role : {"admin", "root"}]

LoginBodies ==
  [email : {"customer@shop", "new@shop", "ghost@shop", "nobody"},
   password : {"secret1", "hunter22", ""}, role : {""}]

NextAuth ==
  \/ \E cred \in SignupBodies, salt \in Salts : SignupBegin(cred, salt)
  \/ \E k \in DOMAIN inflight : SignupInsert(k)
  \/ \E cred \in LoginBodies : Login(cred)

SpecAuth == Init /\ [][NextAuth]_vars

\* Input validation: every endpoint that declares validators, called by a
\* caller who may call it and by a customer, with a body the validators
\* accept and with bodies that break one rule each.
ValidationCreds ==
  {[email |-> "new@shop", password |-> "secret1", role |-> "customer"],
   [email |-> "nobody", password |-> "secret1", role |-> "customer"],
   [email |-> "new@shop", password |-> "abc", role |-> "customer"],
   [email |-> "new@shop", password |-> "secret1", role |-> "root"]}

ValidationLogins ==
  {[email |-> "customer@shop", password |-> "secret1", role |-> ""],
   [email |-> "customer@shop", password |-> "", role |-> ""]}

ValidationQueries ==
  {ListQuery(pl, <<Undef, Undef, Undef, Absent>>) :
     pl \in BadPaging \cup {<<Undef, Undef>>}}

ValidationBodies ==
  {ShopBody("Widget", Whole(10)), ShopBody("", Whole(10)), ShopBody("Widget", -1)}

ValidationItems ==
  {<<>>,
   <<[productId |-> Num(1), quantity |-> Num(1), price |-> Whole(10)]>>,
   <<[productId |-> Num(1), quantity |-> Num(0), price |-> Whole(10)]>>}

NextValidation ==
  \/ \E cred \in ValidationCreds : Signup(cred, 1)
  \/ \E cred \in ValidationLogins : Login(cred)
  \/ \E q \in ValidationQueries : ListProducts(q)
  \/ \E h \in CustomerTokens : GetCart(h)
  \/ \E h \in CustomerTokens, productId \in {Num(1), Bad},
        quantity \in {Num(1), Num(0), Bad} : AddItem(h, productId, quantity)
  \/ \E h \in CustomerTokens, param \in {Str(<<1>>), Bad} : RemoveItem(h, param)
  \/ \E h \in CustomerTokens, items \in ValidationItems,
        total_price \in {Whole(10), -1} : PlaceOrder(h, items, total_price)
  \/ \E h \in Tokens, b \in ValidationBodies : CreateProduct(h, b)
  \/ \E h \in Tokens, b \in ValidationBodies : UpdateProduct(h, 1, b)
  \/ \E h \in Tokens, name \in {"Books", ""} : CreateCategory(h, name)
  \/ \E h \in Tokens, param \in {Str(<<2>>), Bad} : UpdateCategoryAt(h, param, "Toys")
  \/ \E h \in Tokens, param \in {Str(<<2>>), Bad} : DeleteCategoryAt(h, param)

SpecValidation == Init /\ [][NextValidation]_vars

\* Overlapping POST /cart requests of one customer, each running its queries
\* one at a time, on a catalog an admin fills.
NextRace ==
  \/ \E h \in AdminTokens, b \in CatalogBodies : CreateProduct(h, b)
  \/ \E h \in CustomerTokens : GetCart(h)
  \/ \E h \in CustomerTokens, id \in ProductIds : AddItemBegin(h, Num(id), Num(1))
  \/ \E k \in DOMAIN inflight : AddItemSelectCart(k)
  \/ \E k \in DOMAIN inflight : AddItemUpdate(k)
  \/ \E k \in DOMAIN inflight : AddItemRespond(k)

SpecRace == Init /\ [][NextRace]_vars

\* Catalog references: an admin creates, updates and deletes categories and
\* products; a product body names a category that exists, one that may come
\* to exist, or none that ever will, and its image upload succeeds or fails.
RefBodies ==
  [name : {"Widget"}, description : {"A widget"}, price : {Whole(10)}, stock : {5},
   category_id : {1, 2, 9}, image : {"ok", "fail"}]

NextRefs ==
  \/ \E h \in AdminTokens, b \in RefBodies : CreateProduct(h, b)
  \/ \E h \in AdminTokens, b \in RefBodies : UpdateProduct(h, 1, b)
  \/ \E h \in AdminTokens, id \in ProductIds : DeleteProduct(h, id)
  \/ \E h \in AdminTokens : CreateCategory(h, "Books")
  \/ \E h \in AdminTokens, id \in {1, 2} : UpdateCategory(h, id, "Toys")
  \/ \E h \in AdminTokens, id \in {1, 2} : DeleteCategory(h, id)

SpecRefs == Init /\ [][NextRefs]_vars

\* Checkout by two users: the admin and the customer each fill a cart and
\* post the lines of a cart, with their total, as an order.
NextCheckout ==
  \/ \E h \in Tokens : GetCart(h)
  \/ \E h \in AdminTokens : CreateProduct(h, ShopBody("Widget", Whole(10)))
  \/ \E h \in Tokens, q \in {1, 2} : AddItem(h, Num(1), Num(q))
  \/ \E h \in Tokens, items \in OrderItems : PlaceOrder(h, items, SumPrices(items))

SpecCheckout == Init /\ [][NextCheckout]_vars

(***************************************************************************)
(* Properties.  A step is recognised by the reply it leaves in last'.       *)
(***************************************************************************)
\* the lines of the cart row of userId in the carts table cs
ItemsOf(cs, userId) ==
  cs[CHOOSE i \in DOMAIN cs : cs[i].user_id = userId].items

\* the rows of the other users are the same in cs and in cs2
OthersSame(cs, cs2, userId) ==
  /\ Len(cs2) = Len(cs)
  /\ \A i \in DOMAIN cs : cs[i].user_id # userId => cs2[i] = cs[i]

\* the product a productId denotes, as a number
Denotes(productId) == ToNumber(productId)

HasLineFor(cartItems, id) ==
  \E i \in DOMAIN cartItems : Denotes(cartItems[i].productId) = id

Added == last'.op = "addItem" /\ last'.status = 200
Removed == last'.op = "removeItem" /\ last'.status = 200

\* C1: addItem for an existing product that has no line yet in the user's
\* cart appends exactly one line, with the requested quantity and the price
\* (current unit price) x (requested quantity), and changes no other line and
\* no other cart.
C1_AddItemAppendsPricedLine ==
  [][(Added /\ ~HasLineFor(ItemsOf(carts, last'.userId), Denotes(last'.pid)))
       => /\ ItemsOf(carts', last'.userId)
               = Append(ItemsOf(carts, last'.userId),
                        [productId |-> last'.pid, quantity |-> last'.qty,
                         price |-> SelectProduct(Denotes(last'.pid))[1].price
                                     * ToNumber(last'.qty)])
          /\ OthersSame(carts, carts', last'.userId)]_vars

\* a line for product 2, quantity 2, has been appended behind another line
C1_Witness ==
  /\ last.op = "addItem" /\ last.status = 200 /\ last.qty = Num(2)
  /\ \E i \in CartRowsOf(last.userId) :
       /\ Len(carts[i].items) = 2
       /\ carts[i].items[2].productId = last.pid
       /\ carts[i].items[2].quantity = Num(2)
       /\ Denotes(carts[i].items[1].productId) # Denotes(last.pid)

\* C3: addItem for a product that already has a line in the cart adds the
\* requested quantity to that line and recomputes no price: every other
\* field of every line, and the total returned, are as before the call.
C3_ReAddIncrementsQuantity ==
  [][(Added /\ HasLineFor(ItemsOf(carts, last'.userId), Denotes(last'.pid)))
       => LET old == ItemsOf(carts, last'.userId)
              new == ItemsOf(carts', last'.userId)
          IN /\ Len(new) = Len(old)
             /\ \E i \in DOMAIN old :
                  /\ Denotes(old[i].productId) = Denotes(last'.pid)
                  /\ new[i].productId = old[i].productId
                  /\ new[i].price = old[i].price
                  /\ ToNumber(new[i].quantity)
                       = ToNumber(old[i].quantity) + ToNumber(last'.qty)
                  /\ \A j \in DOMAIN old : j # i => new[j] = old[j]
             /\ last'.total = SumPrices(old)]_vars

\* C4: the totalPrice a successful addItem or removeItem returns is the sum of
\* the prices of the lines of the cart as that call stored it.
C4_TotalIsSumOfStoredLines ==
  (last.op \in {"addItem", "removeItem"} /\ last.status = 200)
    => \A i \in CartRowsOf(last.userId) : last.total = SumPrices(carts[i].items)

\* a removeItem that left a line behind returned that line's price
C4_Witness ==
  /\ last.op = "removeItem" /\ last.status = 200 /\ last.total > 0
  /\ \E i \in CartRowsOf(last.userId) : Len(carts[i].items) = 1

\* C5: an authenticated, well-formed addItem for a productId that is not in
\* the catalog is answered 404 and changes nothing, with or without a cart.
C5_UnknownProductIs404 ==
  [][(last'.op = "addItem" /\ last'.hdr = "valid" /\ last'.bodyOk
        /\ SelectProduct(Denotes(last'.pid)) = <<>>)
       => last'.status = 404 /\ UNCHANGED db]_vars

\* 404 for a user who has no cart row, while the catalog holds another product
C5_Witness ==
  /\ last.op = "addItem" /\ last.status = 404
  /\ CartRowsOf(last.userId) = {}
  /\ products # <<>>

\* C6: removeItem leaves no line for the product in the stored cart and keeps
\* the other lines; with no such line the cart and the total are unchanged.
C6_RemoveItemRemovesProductLines ==
  [][Removed
       => LET old == ItemsOf(carts, last'.userId)
              new == ItemsOf(carts', last'.userId)
              id == Denotes(last'.pid)
          IN /\ ~HasLineFor(new, id)
             /\ new = SelectWhere(old,
                        [i \in DOMAIN old |-> Denotes(old[i].productId) # id])
             /\ ~HasLineFor(old, id)
                  => new = old /\ last'.total = SumPrices(old)]_vars

\* C2: an updateProduct or deleteProduct changes no cart line and no placed
\* order, and placeOrder records the total the caller read from the cart, not
\* one recomputed from the current product prices.
C2_ProductWritesKeepCartsAndOrders ==
  [][/\ last'.op \in {"updateProduct", "deleteProduct"}
          => carts' = carts /\ orders' = orders
     /\ (last'.op = "placeOrder" /\ last'.status = 201)
          => /\ Len(orders') = Len(orders) + 1
             /\ SubSeq(orders', 1, Len(orders)) = orders
             /\ orders'[Len(orders')].total_price = last'.total]_vars

\* add 2 at price 10, price updated to 15, order placed: the order holds the
\* line at 20 and the total 20 while the product costs 15
C2_Witness ==
  /\ last.op = "placeOrder" /\ last.status = 201
  /\ SelectProduct(1) # <<>> /\ SelectProduct(1)[1].price = Whole(15)
  /\ orders[Len(orders)].items
       = <<[productId |-> Num(1), quantity |-> Num(2), price |-> Whole(20)]>>
  /\ orders[Len(orders)].total_price = Whole(20)
  /\ ItemsOf(carts, last.userId) = orders[Len(orders)].items

\* C7: after getCart has answered a user, exactly one cart row exists for
\* that user, however the GET /cart requests of that user overlap.
C7_OneCartRowPerUser ==
  (last.op = "getCart" /\ last.status = 200)
    => Cardinality(CartRowsOf(last.userId)) = 1

ProductWrites == {"createProduct", "updateProduct", "deleteProduct"}
CategoryWrites == {"createCategory", "updateCategory", "deleteCategory"}

\* C8: a product create, update or delete carrying a valid token of a
\* non-admin is answered 403, whether or not its body is valid, and leaves
\* the products table as it was.
C8_NonAdminProductWriteIs403 ==
  [][(last'.op \in ProductWrites /\ last'.hdr = "valid" /\ last'.role # "admin")
       => /\ last'.status = 403
          /\ products' = products /\ productSeq' = productSeq]_vars

\* a customer posted an invalid product body and got 403, not 400
C8_Witness ==
  /\ last.op = "createProduct" /\ last.hdr = "valid" /\ last.role = "customer"
  /\ ~last.bodyOk /\ last.status = 403

\* C9: a category create, update or delete carrying a customer's token is
\* answered 403 and leaves the categories table as it was.
C9_CustomerCategoryWriteIs403 ==
  [][(last'.op \in CategoryWrites /\ last'.hdr = "valid" /\ last'.role = "customer")
       => last'.status = 403 /\ categories' = categories]_vars

\* C10: on every endpoint behind authenticateJWT, no Authorization header is
\* answered 401 and a token that does not verify is answered 403, and in
\* both cases nothing is written.
C10_Unauthenticated401Or403 ==
  [][last'.hdr # "valid"
       => /\ last'.status = IF last'.hdr = "absent" THEN 401 ELSE 403
          /\ UNCHANGED db]_vars

\* an expired token was refused on a well-formed POST /orders of a filled cart
C10_Witness ==
  /\ last.op = "placeOrder" /\ last.hdr = "expired" /\ last.status = 403
  /\ last.bodyOk /\ last.total > 0

\* the step in which the INSERT of a signup is run and answered, and the step
\* of a well-formed login (a signup that only begins leaves last as it was)
SignedUp == last'.op = "signup" /\ last'.bodyOk /\ nreq' # nreq
LoggedIn == last'.op = "login" /\ last'.bodyOk /\ inflight' = inflight

\* C11: a well-formed signup with an email that is already registered is
\* answered 409 or 400 and leaves the users table as it was; and in every
\* state, however signups overlap, no two users share an email.
C11_DuplicateEmailIsConflict ==
  /\ [][(SignedUp /\ SelectUser(last'.cred.email) # <<>>)
          => last'.status \in {409, 400} /\ users' = users]_vars
  /\ [](\A i, j \in DOMAIN users : users[i].email = users[j].email => i = j)

\* C12: a signup answered 201 stores a user with the email and the role sent
\* and a hash of the password sent; a well-formed login whose email and
\* password match a stored user is answered with a token that verifies and
\* carries that user's id and role; any other is answered 401 without a token.
C12_LoginIssuesTokenOfSignedUpUser ==
  [][/\ (SignedUp /\ last'.status = 201)
          => /\ Len(users') = Len(users) + 1
             /\ SubSeq(users', 1, Len(users)) = users
             /\ LET user == users'[Len(users')]
                IN /\ user.id = last'.rowId
                   /\ user.email = last'.cred.email
                   /\ user.role = last'.cred.role
                   /\ Compare(last'.cred.password, user.password)
     /\ LoggedIn
          => LET match == {i \in DOMAIN users :
                             /\ users[i].email = last'.cred.email
                             /\ Compare(last'.cred.password, users[i].password)}
             IN IF match # {}
                THEN /\ last'.status = 200
                     /\ Len(last'.rows) = 1
                     /\ authenticateJWT(last'.rows[1]) = 0
                     /\ \E i \in match : /\ last'.rows[1].userId = users[i].id
                                         /\ last'.rows[1].role = users[i].role
                ELSE last'.status = 401 /\ last'.rows = <<>>]_vars

\* the admin who signed up in this run, after a signup of the same email was
\* turned down, logs in and gets a token with the id and the role admin
C12_Witness ==
  /\ last.op = "login" /\ last.status = 200
  /\ last.cred.email = "new@shop"
  /\ last.rows[1].role = "admin"
  /\ last.rows[1].userId = users[Len(users)].id
  /\ userSeq > Len(users)

\* a listing that was answered, its query, its response body, and the page
\* and limit that applied
Listed == last.op = "listProducts" /\ last.status = 200
ListedQuery == last.sent[1]
ListedBody == last.rows[1]
ListedPage == IF ListedQuery.page = Undef THEN 1 ELSE ToNumber(ListedQuery.page)
ListedLimit == IF ListedQuery.limit = Undef THEN 10 ELSE ToNumber(ListedQuery.limit)

\* C13: a listing with valid parameters is answered with at most limit
\* products and with totalPages = ceil(totalCount / limit), the least number of
\* pages of limit rows that hold totalCount rows; page and limit are 1 and 10
\* when the URL does not carry them.
C13_AtMostLimitAndCeilPages ==
  /\ (last.op = "listProducts" /\ last.bodyOk) => last.status = 200
  /\ Listed
       => /\ Len(ListedBody.products) <= ListedLimit
          /\ ListedBody.totalPages * ListedLimit >= ListedBody.totalCount
          /\ (ListedBody.totalPages - 1) * ListedLimit < ListedBody.totalCount
          /\ ListedBody.currentPage = ListedPage

\* page 3 of 5 products listed by 2 holds the last product, of 3 pages
C13_Witness ==
  /\ Listed /\ ListedLimit = 2
  /\ ListedBody.totalCount = 5 /\ ListedBody.totalPages = 3
  /\ ListedBody.currentPage = 3 /\ Len(ListedBody.products) = 1

\* C14, as stated: whenever page x limit >= totalCount the page is empty.
C14_EmptyWhenPageTimesLimitCovers ==
  (Listed /\ ListedPage * ListedLimit >= ListedBody.totalCount)
    => ListedBody.products = <<>>

\* C14, amended: the page is empty exactly when (page - 1) x limit >= totalCount,
\* that is, when the pages before it hold every matching product.
C14_EmptyWhenOffsetCovers ==
  Listed => (ListedBody.products = <<>>
               <=> (ListedPage - 1) * ListedLimit >= ListedBody.totalCount)

\* page 3 by 2 of 4 matching products is empty
C14_Witness ==
  /\ Listed /\ ListedPage = 3 /\ ListedLimit = 2
  /\ ListedBody.totalCount = 4 /\ ListedBody.products = <<>>

\* part occurs in text, whatever the case of the letters
Contains(text, part) ==
  \E i \in 0..(Len(text) - Len(part)) :
    \A j \in 1..Len(part) : Lower(text[i + j]) = Lower(part[j])

\* the row satisfies every filter the query supplies: the price bounds, the
\* category, and the search string as a substring of the name
Satisfies(q, row) ==
  /\ q.minPrice # Undef => row.price >= Whole(ToNumber(q.minPrice))
  /\ q.maxPrice # Undef => row.price <= Whole(ToNumber(q.maxPrice))
  /\ q.category # Undef => row.category_id = ToNumber(q.category)
  /\ q.search # Absent => Contains(Spell(row.name), Spell(q.search))

\* C15: every product of a listing satisfies every filter supplied, and
\* totalCount is the number of products of the catalog that satisfy them all.
C15_FiltersConjunctive ==
  Listed
    => /\ \A i \in DOMAIN ListedBody.products :
            Satisfies(ListedQuery, ListedBody.products[i])
       /\ ListedBody.totalCount
            = Cardinality({i \in DOMAIN products : Satisfies(ListedQuery, products[i])})

\* C16: an order placed with items I and total T, read back by the same user
\* with listOrders, is among the orders returned with items I and total T,
\* whatever the catalog holds.
C16_PlacedOrderReadsBackAsSent ==
  [][(/\ last.op = "placeOrder" /\ last.status = 201
      /\ last'.op = "listOrders" /\ last'.status = 200
      /\ last'.userId = last.userId)
       => \E i \in DOMAIN last'.rows :
            /\ last'.rows[i].id = last.rowId
            /\ last'.rows[i].items = last.sent
            /\ last'.rows[i].total_price = last.total]_vars

\* C17: in every state the total of every stored order is the sum of the
\* prices of its lines.
C17_OrderTotalIsSumOfLines ==
  \A i \in DOMAIN orders : orders[i].total_price = SumPrices(orders[i].items)

\* C18: no request of any user changes or deletes an order once it is stored.
C18_OrdersImmutable ==
  [][\A i \in DOMAIN orders : i \in DOMAIN orders' /\ orders'[i] = orders[i]]_vars

\* the product an order was placed for has since been deleted, and the order
\* is as it was stored
C18_Witness ==
  /\ last.op = "deleteProduct" /\ last.status = 200
  /\ Len(orders) = 1
  /\ orders[1].items = <<[productId |-> Num(1), quantity |-> Num(2),
                          price |-> Whole(20)]>>
  /\ orders[1].total_price = Whole(20) /\ orders[1].order_date = 1
  /\ SelectProduct(1) = <<>>

ByAdmin == last'.hdr = "valid" /\ last'.role = "admin" /\ last'.bodyOk

\* C20: a get, update or delete of a product and an update or delete of a
\* category whose id matches no row is answered 404 and changes nothing.
C20_MissingIdIs404 ==
  [][(\/ /\ last'.op = "getProduct"
         /\ SelectProduct(Denotes(last'.pid)) = <<>>
      \/ /\ last'.op \in {"updateProduct", "deleteProduct"} /\ ByAdmin
         /\ SelectProduct(Denotes(last'.pid)) = <<>>
      \/ /\ last'.op \in {"updateCategory", "deleteCategory"} /\ ByAdmin
         /\ ~CategoryExists(Denotes(last'.pid)))
       => last'.status = 404 /\ UNCHANGED db]_vars

\* the request of last' got past the middleware in front of the validators:
\* authenticateJWT on the protected routes, then authorizeAdmin on the
\* product writes
PastMiddleware ==
  /\ last'.hdr \in {"public", "valid"}
  /\ last'.op \in ProductWrites => last'.role = "admin"

FirstCartWrite ==
  /\ last'.op \in {"addItem", "removeItem"}
  /\ last'.hdr = "valid" /\ last'.bodyOk
  /\ CartRowsOf(last'.userId) = {}
  /\ last'.op = "addItem" => SelectProduct(ToNumber(last'.pid)) # <<>>

\* C22: addItem (for an existing product) or removeItem by an authenticated
\* user who has no cart row yet answers 200 and leaves that user with exactly
\* one cart row.
C22_FirstCartWriteCreatesCart ==
  [][FirstCartWrite =>
       /\ last'.status = 200
       /\ Cardinality({i \in DOMAIN carts' : carts'[i].user_id = last'.userId}) = 1]_vars

\* the step is the UPDATE of the k-th request in flight
UpdateStepOf(k) ==
  /\ k \in DOMAIN inflight /\ inflight[k].pc = "update"
  /\ Len(inflight') = Len(inflight) /\ inflight'[k].pc = "respond"

\* C23: cart mutation is not serialized per user. The UPDATE of an addItem
\* stores the snapshot the request read plus its own line, whatever the row
\* holds by then: a line another addItem stored after that read is dropped,
\* and both requests are answered 200.
C23_AddItemStoresItsSnapshotPlusLine ==
  [][\A k \in 1..MaxInflight :
       UpdateStepOf(k) =>
         ItemsOf(carts', inflight[k].h.userId)
           = AddOrUpdate(inflight[k].read, inflight[k].productId,
                         inflight[k].quantity, inflight[k].itemPrice)]_vars

\* C23: the lost update. Two addItem requests of one user for two different
\* products read the same (empty) cart; the first has stored its line and
\* been answered 200; the second has stored its own and is sending its 200;
\* the stored cart holds the line of the second only.
C23_Witness ==
  /\ last.op = "addItem" /\ last.status = 200 /\ Len(last.rows) = 1
  /\ \E k \in DOMAIN inflight :
       LET r == inflight[k]
       IN /\ r.pc = "respond" /\ r.h.userId = last.userId
          /\ r.read = <<>> /\ Len(r.cartItems) = 1
          /\ Denotes(r.productId) # Denotes(last.pid)
          /\ SelectProduct(Denotes(r.productId)) # <<>>
          /\ SelectProduct(Denotes(last.pid)) # <<>>
          /\ Cardinality(CartRowsOf(r.h.userId)) = 1
          /\ ItemsOf(carts, r.h.userId) = r.cartItems
          /\ ~HasLineFor(ItemsOf(carts, r.h.userId), Denotes(last.pid))

\* C24: createProduct by an admin with valid fields, an existing category and
\* an image whose upload fails answers 201 and persists the product row with
\* a null image URL.
C24_FailedUploadStillCreates ==
  [][\A h \in AdminTokens, b \in RefBodies :
       (b.image = "fail" /\ CategoryExists(b.category_id) /\ CreateProduct(h, b))
         => /\ last'.status = 201
            /\ products' = Append(products, ProductRow(productSeq + 1, b, Null))]_vars

\* some stored product references the category id
Referenced(id) == \E i \in DOMAIN products : products[i].category_id = id

\* C25: in every reachable state every stored product's category reference
\* points to an existing category; creating or updating a product with an
\* unknown category id stores nothing and does not succeed; deleting a
\* category that some product references fails and leaves the category in
\* place.
C25_ProductCategoryAlwaysExists ==
  /\ [](\A i \in DOMAIN products : CategoryExists(products[i].category_id))
  /\ [][\A h \in AdminTokens, b \in RefBodies :
          (~CategoryExists(b.category_id)
             /\ (CreateProduct(h, b) \/ UpdateProduct(h, 1, b)))
            => (products' = products /\ last'.status \notin {200, 201})]_vars
  /\ [][\A h \in AdminTokens, id \in {1, 2} :
          (Referenced(id) /\ DeleteCategory(h, id))
            => (categories' = categories /\ last'.status = 500)]_vars

\* C25: a product references category 2, the unreferenced category 1 has
\* been deleted, and the delete of category 2 has just been refused
C25_Witness ==
  /\ last.op = "deleteCategory" /\ last.status = 500 /\ last.pid = Num(2)
  /\ Referenced(2) /\ CategoryExists(2) /\ ~CategoryExists(1)

\* C26: in every reachable state a stored cart holds at most one line per
\* product id and every line has quantity >= 1.
C26_OneLinePerProductQuantityPositive ==
  \A c \in DOMAIN carts :
    LET items == carts[c].items
    IN /\ \A i, j \in DOMAIN items :
            Denotes(items[i].productId) = Denotes(items[j].productId) => i = j
       /\ \A i \in DOMAIN items : ToNumber(items[i].quantity) >= 1

\* C27: placeOrder changes nothing but the orders table: an accepted order
\* adds exactly one row, owned by the caller, and leaves every cart (the
\* caller's lines and their prices included), the products and their stock,
\* the users and the categories as they were.
C27_PlaceOrderWritesOrdersOnly ==
  [][(last'.op = "placeOrder" /\ last'.status = 201) =>
       /\ Len(orders') = Len(orders) + 1
       /\ SubSeq(orders', 1, Len(orders)) = orders
       /\ orders'[Len(orders')].user_id = last'.userId
       /\ orders'[Len(orders')].items = last'.sent
       /\ UNCHANGED <<carts, products, users, categories,
                      userSeq, productSeq, categorySeq>>]_vars

\* C27: a user has ordered the contents of their cart twice; the cart still
\* holds them and the stock of the product is what it was
C27_Witness ==
  /\ last.op = "placeOrder" /\ last.status = 201 /\ Len(orders) = 2
  /\ orders[1].items = orders[2].items /\ Len(orders[1].items) = 1
  /\ orders[1].user_id = last.userId /\ orders[2].user_id = last.userId
  /\ \E i \in DOMAIN carts :
       carts[i].user_id = last.userId /\ carts[i].items = orders[2].items
  /\ \E i \in DOMAIN products : products[i].stock = 5

====
